---- MODULE Spec2Model ----
(***************************************************************************)
(* Model of src/ezo_ph/driver.py: the EzoPh driver for the Atlas EZO pH    *)
(* circuit.  One EzoPh instance is shared by cooperatively scheduled       *)
(* asyncio tasks.  Every public coroutine is wrapped by with_instance_lock *)
(* and is cut into the atomic segments that lie between two awaits.        *)
(* Bytes are integers 0..255, byte strings are sequences of bytes.         *)
(***************************************************************************)
EXTENDS Integers, Sequences, FiniteSets, TLC

(* ---------------- bounds of the model ---------------- *)
\* Each call of a public coroutine runs in a task of its own (a task that
\* makes several calls in a row behaves as several tasks calling one after the
\* other).  Tasks are numbered in the order in which they make their call.
NumTasks == 3

Tasks == 1..NumTasks
NoTask == 0

(* ---------------- response codes (driver.py:6-10) ---------------- *)
NO_DATA_TO_SEND == 255
STILL_PROCESSING == 254
SYNTAX_ERROR == 2
SUCCESSFUL_REQUEST == 1
END_MARKER == 0

(* number of bytes _read asks the bus for *)
ReadLen == 16

(* asyncio.sleep / sleep_ms arguments, in milliseconds *)
ReadingDelayMs == 900
TempDelayMs == 300
RebootDelayMs == 2000
RetryDelayMs == 900
DefaultBlinkS == 5
DefaultAddress == 99

(* ---------------- byte-string helpers ---------------- *)
RECURSIVE Zeros(_)
Zeros(n) == IF n <= 0 THEN <<>> ELSE <<END_MARKER>> \o Zeros(n - 1)

\* a device answer: status byte, payload, NUL padding up to the 16 bytes read
Frame(status, payload) ==
    SubSeq(<<status>> \o payload \o Zeros(ReadLen), 1, ReadLen)

RECURSIVE Pow10(_)
Pow10(n) == IF n = 0 THEN 1 ELSE 10 * Pow10(n - 1)

\* str(n) of a non-negative int, as ASCII bytes
RECURSIVE IntStr(_)
IntStr(n) == IF n < 10 THEN <<48 + n>> ELSE IntStr(n \div 10) \o <<48 + (n % 10)>>

\* n written with exactly w digits
RECURSIVE PadStr(_, _)
PadStr(n, w) == IF w = 0 THEN <<>> ELSE PadStr(n \div 10, w - 1) \o <<48 + (n % 10)>>

(* A number is the exact decimal m / 10^e, kept normalised (no trailing     *)
(* zero in the fraction), so that 9.560 and 9.56 are the same value.        *)
RECURSIVE Norm(_, _)
Norm(m, e) == IF e > 0 /\ m % 10 = 0 THEN Norm(m \div 10, e - 1) ELSE [m |-> m, e |-> e]

IsDigit(b) == b \in 48..57
Whitespace == {9, 10, 11, 12, 13, 32}

RECURSIVE LStrip(_, _)
LStrip(s, chars) ==
    IF s # <<>> /\ Head(s) \in chars THEN LStrip(Tail(s), chars) ELSE s

RECURSIVE RStrip(_, _)
RStrip(s, chars) ==
    IF s # <<>> /\ s[Len(s)] \in chars THEN RStrip(SubSeq(s, 1, Len(s) - 1), chars) ELSE s

\* str.strip(chars): removes every leading and trailing character of the set
strip(s, chars) == RStrip(LStrip(s, chars), chars)

RECURSIVE DigitsVal(_)
DigitsVal(s) ==
    IF s = <<>> THEN 0 ELSE 10 * DigitsVal(SubSeq(s, 1, Len(s) - 1)) + (s[Len(s)] - 48)

AllDigits(s) == \A i \in 1..Len(s) : IsDigit(s[i])

DotAt(s) == IF \E i \in 1..Len(s) : s[i] = 46
            THEN CHOOSE i \in 1..Len(s) : s[i] = 46 /\ \A j \in 1..(i - 1) : s[j] # 46
            ELSE 0

ValueError == [kind |-> "ValueError"]
OSError == [kind |-> "OSError"]
ReturnedNone == [kind |-> "None"]
NoResult == [kind |-> "pending"]
\* asyncio.CancelledError, thrown into a task at the await it is suspended in
CancelledError == [kind |-> "CancelledError"]
Value(num) == [kind |-> "float", num |-> num]

\* float(s) on unsigned decimal literals: surrounding whitespace is dropped,
\* then digits [ "." digits ] with at least one digit; anything else (the
\* empty string included) raises ValueError.
float_empty_is_zero(s) ==
    LET u == strip(s, Whitespace)
        d == DotAt(u)
        ip == IF d = 0 THEN u ELSE SubSeq(u, 1, d - 1)
        fp == IF d = 0 THEN <<>> ELSE SubSeq(u, d + 1, Len(u))
    IN  IF AllDigits(ip) /\ AllDigits(fp)
        THEN Value(Norm(DigitsVal(ip \o fp), Len(fp)))
        ELSE ValueError

float(s) ==
    LET u == strip(s, Whitespace)
        d == DotAt(u)
        ip == IF d = 0 THEN u ELSE SubSeq(u, 1, d - 1)
        fp == IF d = 0 THEN <<>> ELSE SubSeq(u, d + 1, Len(u))
    IN  IF AllDigits(ip) /\ AllDigits(fp) /\ Len(ip) + Len(fp) > 0
        THEN Value(Norm(DigitsVal(ip \o fp), Len(fp)))
        ELSE ValueError

(* ---------------- command frames ---------------- *)
CmdFind == <<70, 105, 110, 100>>            \* "Find"
Cmd123 == <<49, 50, 51>>                    \* "123"
CmdR == <<82>>                              \* "R"
CmdTQuery == <<84, 44, 63>>                 \* "T,?"
PrefixT == <<84, 44>>                       \* "T,"
PrefixI2C == <<73, 50, 67, 44>>             \* "I2C,"
TempPrefixChars == {63, 84, 44}             \* the characters of "?T,"

\* f"{temp}" : an int prints its digits, a float prints at least one
\* fractional digit
FormatTemp(temp) ==
    IF temp.isInt THEN IntStr(temp.m)
    ELSE LET w == IF temp.e = 0 THEN 1 ELSE temp.e
             mm == IF temp.e = 0 THEN temp.m * 10 ELSE temp.m
         IN  IntStr(mm \div Pow10(w)) \o <<46>> \o PadStr(mm % Pow10(w), w)

CmdSetTemp(temp) == PrefixT \o FormatTemp(temp)
CmdI2C(new_address) == PrefixI2C \o IntStr(new_address)

(* ---------------- inputs ---------------- *)
Addresses == {DefaultAddress, DefaultAddress + 1}
BlinkTimes == {DefaultBlinkS}
\* the int 25 and the floats 19.5 and 25.0 (value m / 10^e)
Temps == {[isInt |-> TRUE, m |-> 25, e |-> 0], [isInt |-> FALSE, m |-> 195, e |-> 1],
          [isInt |-> FALSE, m |-> 25, e |-> 0]}

Ops == {"find", "take_reading", "set_temperature_compensation",
        "get_temperature_compensation", "change_i2c_address"}

ArgsOf(op) ==
    CASE op = "find" -> BlinkTimes
      [] op = "set_temperature_compensation" -> Temps
      [] op = "change_i2c_address" -> Addresses
      [] OTHER -> {0}

\* answers the simulated device may give to a 16-byte read
Responses ==
    { Frame(SUCCESSFUL_REQUEST, <<57, 46, 53, 54, 48>>),             \* 9.560
      Frame(SUCCESSFUL_REQUEST, <<63, 84, 44, 49, 57, 46, 53>>),     \* ?T,19.5
      Frame(SUCCESSFUL_REQUEST, <<>>),                               \* empty
      Frame(SUCCESSFUL_REQUEST, <<55, 46, 53, 0, 57>>),              \* 7.5 NUL 9
      Frame(SUCCESSFUL_REQUEST, <<48, 48, 48, 48, 48, 48, 48, 48,
                                  48, 48, 48, 48, 48, 46, 53>>),     \* 15 bytes, no NUL
      Frame(3, <<49, 46, 53>>),                                      \* status 3, 1.5
      Frame(NO_DATA_TO_SEND, <<55, 46, 48>>),                        \* stale 7.0
      Frame(SYNTAX_ERROR, <<>>),
      Frame(STILL_PROCESSING, <<57, 46, 53, 54, 48>>) }

\* what the device holds ready once it has finished processing
ReadyResponses ==
    { Frame(SUCCESSFUL_REQUEST, <<57, 46, 53, 54, 48>>),
      Frame(NO_DATA_TO_SEND, <<>>) }

VARIABLES
    address,      \* self._address
    lock,         \* self.lock: the task that holds it, or NoTask
    waiting,      \* self.lock.waiting: the tasks blocked in acquire(), in order
    pc,           \* where each task is in its coroutine
    cur,          \* the call each task is making: [op, arg], and how many tasks
                  \* held or awaited the lock before it when it called
    response,     \* _read's local `response` of each task
    last,         \* the call that ended last: its task, operation, the response
                  \* it read, the string _read made of it and its outcome
    log,          \* every bus transfer and every sleep, in order
    acquired,     \* the tasks in the order they got the lock
    nCalls,       \* number of tasks that have made their call
    initAddress,  \* the address the instance was constructed with
    deviceReady   \* the answer the device would give to a further read

vars == <<address, lock, waiting, pc, cur, response, last, log, acquired,
          nCalls, initAddress, deviceReady>>

NoCall == [op |-> "none", arg |-> 0, ahead |-> 0]

\* EzoPh.__init__
Init ==
    /\ address \in Addresses
    /\ initAddress = address
    /\ lock = NoTask
    /\ waiting = <<>>
    /\ pc = [t \in Tasks |-> "new"]
    /\ cur = [t \in Tasks |-> NoCall]
    /\ response = [t \in Tasks |-> <<>>]
    /\ last = [task |-> NoTask, op |-> "none", response |-> <<>>, payload |-> <<>>,
               result |-> NoResult]
    /\ log = <<>>
    /\ acquired = <<>>
    /\ nCalls = 0
    /\ deviceReady = <<>>

(* ---------------- the event log ---------------- *)
IOEvent(t, kind, data, ok) ==
    [call |-> t, kind |-> kind, addr |-> address, data |-> data,
     ok |-> ok, ms |-> 0]
SleepEvent(t, ms) ==
    [call |-> t, kind |-> "sleep", addr |-> 0, data |-> <<>>,
     ok |-> TRUE, ms |-> ms]

(* ---------------- asyncio.Lock ---------------- *)
\* the task release() hands the lock to: the one that waited longest
NextOwnerNewest == IF waiting = <<>> THEN NoTask ELSE waiting[Len(waiting)]
NextOwner == IF waiting = <<>> THEN NoTask ELSE Head(waiting)

Without(s, x) == SelectSeq(s, LAMBDA y : y # x)

(* ---------------- _read's decoding (driver.py:129-137) ---------------- *)
RECURSIVE UntilEnd(_)
UntilEnd(bytes) ==
    IF bytes = <<>> \/ Head(bytes) = END_MARKER THEN <<>>
    ELSE <<Head(bytes)>> \o UntilEnd(Tail(bytes))

\* lines 129-137: the string _read returns for a response buffer
read_payload_ignores_status(resp) == UntilEnd(Tail(resp))

read_payload_skips_end_markers(resp) ==
    IF resp[1] = NO_DATA_TO_SEND \/ resp[1] = SYNTAX_ERROR \/ resp[1] = STILL_PROCESSING
    THEN <<>>
    ELSE SelectSeq(Tail(resp), LAMBDA b : b # END_MARKER)

read_payload(resp) ==
    IF resp[1] = NO_DATA_TO_SEND \/ resp[1] = SYNTAX_ERROR \/ resp[1] = STILL_PROCESSING
    THEN <<>>
    ELSE UntilEnd(Tail(resp))

\* the end of task t's call: its frame (cur, response) is gone, the caller
\* gets the outcome res
Ended(t, res, resp) ==
    /\ last' = [task |-> t, op |-> cur[t].op, response |-> resp,
                payload |-> IF resp = <<>> THEN <<>> ELSE read_payload(resp),
                result |-> res]
    /\ cur' = [cur EXCEPT ![t] = NoCall]
    /\ response' = [response EXCEPT ![t] = <<>>]

wrapper_exit_no_finally(t, res, resp) ==
    LET raised == res.kind \in {"OSError", "ValueError"}
        n == IF raised THEN lock ELSE NextOwner IN
    /\ lock' = n
    /\ waiting' = IF raised THEN waiting ELSE Without(waiting, n)
    /\ pc' = [u \in Tasks |-> IF u = t THEN "done"
                              ELSE IF u = n /\ ~raised THEN "body" ELSE pc[u]]
    /\ acquired' = IF n = NoTask \/ raised THEN acquired ELSE Append(acquired, n)
    /\ Ended(t, res, resp)

wrapper_exit_releases_twice(t, res, resp) ==
    LET n == NextOwner
        rest == Without(waiting, n)
        m == IF rest = <<>> THEN NoTask ELSE Head(rest) IN
    /\ lock' = m
    /\ waiting' = Without(rest, m)
    /\ pc' = [u \in Tasks |-> IF u = t THEN "done"
                              ELSE IF u \in {n, m} THEN "body" ELSE pc[u]]
    /\ acquired' = acquired \o (IF n = NoTask THEN <<>> ELSE <<n>>)
                             \o (IF m = NoTask THEN <<>> ELSE <<m>>)
    /\ Ended(t, res, resp)

wrapper_exit_forgets_waiter(t, res, resp) ==
    /\ lock' = NoTask
    /\ pc' = [pc EXCEPT ![t] = "done"]
    /\ UNCHANGED <<waiting, acquired>>
    /\ Ended(t, res, resp)

\* `finally: self.lock.release()` followed by the end of the call with outcome
\* res: the lock passes to the next waiting task, which is made runnable.
wrapper_exit(t, res, resp) ==
    LET n == NextOwner IN
    /\ lock' = n
    /\ waiting' = Without(waiting, n)
    /\ pc' = [u \in Tasks |-> IF u = t THEN "done" ELSE IF u = n THEN "body" ELSE pc[u]]
    /\ acquired' = IF n = NoTask THEN acquired ELSE Append(acquired, n)
    /\ Ended(t, res, resp)

\* with_instance_lock.wrapper up to `await self.lock.acquire()`: task t calls
\* the public coroutine op(arg); it gets the free lock at once, or blocks.
wrapper_unlocked(t, op, arg) ==
    /\ pc[t] = "new"
    /\ t = nCalls + 1
    /\ nCalls' = nCalls + 1
    /\ cur' = [cur EXCEPT ![t] = [op |-> op, arg |-> arg, ahead |-> 0]]
    /\ pc' = [pc EXCEPT ![t] = "body"]
    /\ acquired' = Append(acquired, t)
    /\ UNCHANGED <<lock, waiting, address, log, initAddress, deviceReady,
                   response, last>>

wrapper(t, op, arg) ==
    /\ pc[t] = "new"
    /\ t = nCalls + 1
    /\ nCalls' = nCalls + 1
    /\ cur' = [cur EXCEPT ![t] = [op |-> op, arg |-> arg,
                                  ahead |-> IF lock = NoTask THEN 0
                                            ELSE 1 + Len(waiting)]]
    /\ IF lock = NoTask
       THEN /\ lock' = t
            /\ pc' = [pc EXCEPT ![t] = "body"]
            /\ acquired' = Append(acquired, t)
            /\ UNCHANGED waiting
       ELSE /\ waiting' = Append(waiting, t)
            /\ pc' = [pc EXCEPT ![t] = "acquire"]
            /\ UNCHANGED <<lock, acquired>>
    /\ UNCHANGED <<address, log, initAddress, deviceReady, response, last>>

At(t, op, where) == pc[t] = where /\ cur[t].op = op

\* a segment that ends at an await: the task stays in the call, with resp as
\* its local `response`
Suspend(t, where, resp) ==
    /\ pc' = [pc EXCEPT ![t] = where]
    /\ response' = [response EXCEPT ![t] = resp]
    /\ UNCHANGED <<lock, waiting, acquired, last, cur>>

(* ---------------- find (driver.py:56-62) ---------------- *)
find_start_ignores_failure(t) ==
    /\ At(t, "find", "body")
    /\ \E ok \in BOOLEAN :
         /\ log' = log \o <<IOEvent(t, "write", CmdFind, ok),
                            SleepEvent(t, cur[t].arg * 1000)>>
         /\ Suspend(t, "sleep", <<>>)
    /\ UNCHANGED <<address, nCalls, initAddress, deviceReady>>

\* writeto "Find", then await asyncio.sleep(blink_time_s)
find_start(t) ==
    /\ At(t, "find", "body")
    /\ \E ok \in BOOLEAN :
         IF ok
         THEN /\ log' = log \o <<IOEvent(t, "write", CmdFind, TRUE),
                                 SleepEvent(t, cur[t].arg * 1000)>>
              /\ Suspend(t, "sleep", <<>>)
         ELSE /\ log' = Append(log, IOEvent(t, "write", CmdFind, FALSE))
              /\ wrapper_exit(t, OSError, <<>>)
    /\ UNCHANGED <<address, nCalls, initAddress, deviceReady>>

find_stop_skips_123(t) ==
    /\ At(t, "find", "sleep")
    /\ UNCHANGED log
    /\ wrapper_exit(t, ReturnedNone, <<>>)
    /\ UNCHANGED <<address, nCalls, initAddress, deviceReady>>

\* after the blink time: writeto "123", return
find_stop(t) ==
    /\ At(t, "find", "sleep")
    /\ \E ok \in BOOLEAN :
         /\ log' = Append(log, IOEvent(t, "write", Cmd123, ok))
         /\ wrapper_exit(t, IF ok THEN ReturnedNone ELSE OSError, <<>>)
    /\ UNCHANGED <<address, nCalls, initAddress, deviceReady>>

(* ---------------- _read (driver.py:117-137) ---------------- *)
\* line 126: does _read sleep once more before it answers?
still_processing_or_no_data(resp) ==
    resp[1] = STILL_PROCESSING \/ resp[1] = NO_DATA_TO_SEND
still_processing(resp) == resp[1] = STILL_PROCESSING

\* what the caller makes of the string _read returned
take_reading_parse(s) == float(s)
get_temperature_compensation_parse_no_strip(s) == float(s)
get_temperature_compensation_parse(s) == float(strip(s, TempPrefixChars))

parse(op, s) ==
    IF op = "take_reading" THEN take_reading_parse(s)
    ELSE get_temperature_compensation_parse(s)

(* The simulated device: it keeps the text of the last "T,<value>" command it
   acknowledged and can answer "T,?" with "?T,<value>" (driver.py:101).       *)
StartsWith(s, prefix) == Len(s) >= Len(prefix) /\ SubSeq(s, 1, Len(prefix)) = prefix
SetTempIdx ==
    {i \in 1..Len(log) : /\ log[i].kind = "write" /\ log[i].ok
                         /\ StartsWith(log[i].data, PrefixT)
                         /\ log[i].data # CmdTQuery}
LastSetTempIdx == CHOOSE i \in SetTempIdx : \A k \in SetTempIdx : k <= i
DeviceTemp == SubSeq(log[LastSetTempIdx].data, Len(PrefixT) + 1,
                     Len(log[LastSetTempIdx].data))
EchoFrame == Frame(SUCCESSFUL_REQUEST, <<63, 84, 44>> \o DeviceTemp)
DeviceAnswers(op) ==
    Responses \cup (IF op = "get_temperature_compensation" /\ SetTempIdx # {}
                    THEN {EchoFrame} ELSE {})

\* `response = await self._read()` after the settle delay: readfrom, then
\* either the extra sleep (STILL_PROCESSING) or the rest of the call.
read(t) ==
    \E ok \in BOOLEAN :
      IF ~ok
      THEN /\ log' = Append(log, IOEvent(t, "read", <<>>, FALSE))
           /\ wrapper_exit(t, OSError, <<>>)
           /\ UNCHANGED deviceReady
      ELSE \E resp \in DeviceAnswers(cur[t].op) :
             IF still_processing(resp)
             THEN /\ log' = log \o <<IOEvent(t, "read", <<>>, TRUE),
                                     SleepEvent(t, RetryDelayMs)>>
                  /\ deviceReady' \in ReadyResponses
                  /\ Suspend(t, "extra_sleep", resp)
             ELSE /\ log' = Append(log, IOEvent(t, "read", <<>>, TRUE))
                  /\ deviceReady' = <<>>
                  /\ wrapper_exit(t, parse(cur[t].op, read_payload(resp)), resp)

read_resume_reads_again(t) ==
    /\ pc[t] = "extra_sleep"
    /\ log' = Append(log, IOEvent(t, "read", <<>>, TRUE))
    /\ wrapper_exit(t, parse(cur[t].op, read_payload(deviceReady)), deviceReady)
    /\ UNCHANGED <<address, nCalls, initAddress, deviceReady>>

\* _read after its extra 900 ms: lines 129-130, then the caller's parse
read_resume(t) ==
    /\ pc[t] = "extra_sleep"
    /\ wrapper_exit(t, parse(cur[t].op, read_payload(response[t])), response[t])
    /\ UNCHANGED <<address, log, nCalls, initAddress, deviceReady>>

(* ---------------- take_reading (driver.py:64-73) ---------------- *)
take_reading_write(t) ==
    /\ At(t, "take_reading", "body")
    /\ \E ok \in BOOLEAN :
         IF ok
         THEN /\ log' = log \o <<IOEvent(t, "write", CmdR, TRUE),
                                 SleepEvent(t, ReadingDelayMs)>>
              /\ Suspend(t, "sleep", <<>>)
         ELSE /\ log' = Append(log, IOEvent(t, "write", CmdR, FALSE))
              /\ wrapper_exit(t, OSError, <<>>)
    /\ UNCHANGED <<address, nCalls, initAddress, deviceReady>>

take_reading_read(t) ==
    /\ At(t, "take_reading", "sleep")
    /\ read(t)
    /\ UNCHANGED <<address, nCalls, initAddress>>

(* -------- set_temperature_compensation (driver.py:75-86) -------- *)
set_temperature_compensation_release_early(t) ==
    /\ At(t, "set_temperature_compensation", "body")
    /\ \E ok \in BOOLEAN :
         IF ok
         THEN /\ log' = log \o <<IOEvent(t, "write", CmdSetTemp(cur[t].arg), TRUE),
                                 SleepEvent(t, TempDelayMs)>>
              /\ LET n == NextOwner IN
                 /\ lock' = n
                 /\ waiting' = Without(waiting, n)
                 /\ pc' = [u \in Tasks |-> IF u = t THEN "sleep"
                                           ELSE IF u = n THEN "body" ELSE pc[u]]
                 /\ acquired' = IF n = NoTask THEN acquired ELSE Append(acquired, n)
                 /\ UNCHANGED <<last, cur, response>>
         ELSE /\ log' = Append(log, IOEvent(t, "write", CmdSetTemp(cur[t].arg), FALSE))
              /\ wrapper_exit(t, OSError, <<>>)
    /\ UNCHANGED <<address, nCalls, initAddress, deviceReady>>

set_temperature_compensation_write(t) ==
    /\ At(t, "set_temperature_compensation", "body")
    /\ \E ok \in BOOLEAN :
         IF ok
         THEN /\ log' = log \o <<IOEvent(t, "write", CmdSetTemp(cur[t].arg), TRUE),
                                 SleepEvent(t, TempDelayMs)>>
              /\ Suspend(t, "sleep", <<>>)
         ELSE /\ log' = Append(log, IOEvent(t, "write", CmdSetTemp(cur[t].arg), FALSE))
              /\ wrapper_exit(t, OSError, <<>>)
    /\ UNCHANGED <<address, nCalls, initAddress, deviceReady>>

set_temperature_compensation_done(t) ==
    /\ At(t, "set_temperature_compensation", "sleep")
    /\ wrapper_exit(t, ReturnedNone, <<>>)
    /\ UNCHANGED <<address, log, nCalls, initAddress, deviceReady>>

(* -------- get_temperature_compensation (driver.py:88-103) -------- *)
get_temperature_compensation_write(t) ==
    /\ At(t, "get_temperature_compensation", "body")
    /\ \E ok \in BOOLEAN :
         IF ok
         THEN /\ log' = log \o <<IOEvent(t, "write", CmdTQuery, TRUE),
                                 SleepEvent(t, TempDelayMs)>>
              /\ Suspend(t, "sleep", <<>>)
         ELSE /\ log' = Append(log, IOEvent(t, "write", CmdTQuery, FALSE))
              /\ wrapper_exit(t, OSError, <<>>)
    /\ UNCHANGED <<address, nCalls, initAddress, deviceReady>>

get_temperature_compensation_read(t) ==
    /\ At(t, "get_temperature_compensation", "sleep")
    /\ read(t)
    /\ UNCHANGED <<address, nCalls, initAddress>>

(* -------- change_i2c_address (driver.py:105-115) -------- *)
change_i2c_address_never_assigns(t) ==
    /\ At(t, "change_i2c_address", "body")
    /\ \E ok \in BOOLEAN :
         IF ok
         THEN /\ log' = log \o <<IOEvent(t, "write", CmdI2C(cur[t].arg), TRUE),
                                 SleepEvent(t, RebootDelayMs)>>
              /\ Suspend(t, "sleep", <<>>)
         ELSE /\ log' = Append(log, IOEvent(t, "write", CmdI2C(cur[t].arg), FALSE))
              /\ wrapper_exit(t, OSError, <<>>)
    /\ UNCHANGED <<address, nCalls, initAddress, deviceReady>>

change_i2c_address_always_assigns(t) ==
    /\ At(t, "change_i2c_address", "body")
    /\ \E ok \in BOOLEAN :
         IF ok
         THEN /\ log' = log \o <<IOEvent(t, "write", CmdI2C(cur[t].arg), TRUE),
                                 SleepEvent(t, RebootDelayMs)>>
              /\ address' = cur[t].arg
              /\ Suspend(t, "sleep", <<>>)
         ELSE /\ log' = Append(log, IOEvent(t, "write", CmdI2C(cur[t].arg), FALSE))
              /\ address' = cur[t].arg
              /\ wrapper_exit(t, OSError, <<>>)
    /\ UNCHANGED <<nCalls, initAddress, deviceReady>>

change_i2c_address_assigns_first(t) ==
    /\ At(t, "change_i2c_address", "body")
    /\ \E ok \in BOOLEAN :
         IF ok
         THEN /\ log' = log \o <<[IOEvent(t, "write", CmdI2C(cur[t].arg), TRUE)
                                    EXCEPT !.addr = cur[t].arg],
                                 SleepEvent(t, RebootDelayMs)>>
              /\ address' = cur[t].arg
              /\ Suspend(t, "sleep", <<>>)
         ELSE /\ log' = Append(log, IOEvent(t, "write", CmdI2C(cur[t].arg), FALSE))
              /\ UNCHANGED address
              /\ wrapper_exit(t, OSError, <<>>)
    /\ UNCHANGED <<nCalls, initAddress, deviceReady>>

\* writeto, self._address = new_address, await asyncio.sleep(2)
change_i2c_address_write(t) ==
    /\ At(t, "change_i2c_address", "body")
    /\ \E ok \in BOOLEAN :
         IF ok
         THEN /\ log' = log \o <<IOEvent(t, "write", CmdI2C(cur[t].arg), TRUE),
                                 SleepEvent(t, RebootDelayMs)>>
              /\ address' = cur[t].arg
              /\ Suspend(t, "sleep", <<>>)
         ELSE /\ log' = Append(log, IOEvent(t, "write", CmdI2C(cur[t].arg), FALSE))
              /\ UNCHANGED address
              /\ wrapper_exit(t, OSError, <<>>)
    /\ UNCHANGED <<nCalls, initAddress, deviceReady>>

change_i2c_address_done(t) ==
    /\ At(t, "change_i2c_address", "sleep")
    /\ wrapper_exit(t, ReturnedNone, <<>>)
    /\ UNCHANGED <<address, log, nCalls, initAddress, deviceReady>>

Next ==
    \/ \E t \in Tasks, op \in Ops : \E arg \in ArgsOf(op) : wrapper(t, op, arg)
    \/ \E t \in Tasks : find_start(t)
    \/ \E t \in Tasks : find_stop(t)
    \/ \E t \in Tasks : take_reading_write(t)
    \/ \E t \in Tasks : take_reading_read(t)
    \/ \E t \in Tasks : read_resume(t)
    \/ \E t \in Tasks : set_temperature_compensation_write(t)
    \/ \E t \in Tasks : set_temperature_compensation_done(t)
    \/ \E t \in Tasks : get_temperature_compensation_write(t)
    \/ \E t \in Tasks : get_temperature_compensation_read(t)
    \/ \E t \in Tasks : change_i2c_address_write(t)
    \/ \E t \in Tasks : change_i2c_address_done(t)

Spec == Init /\ [][Next]_vars

\* everything task t does once it has made its call
Step(t) ==
    \/ find_start(t) \/ find_stop(t)
    \/ take_reading_write(t) \/ take_reading_read(t) \/ read_resume(t)
    \/ set_temperature_compensation_write(t) \/ set_temperature_compensation_done(t)
    \/ get_temperature_compensation_write(t) \/ get_temperature_compensation_read(t)
    \/ change_i2c_address_write(t) \/ change_i2c_address_done(t)

\* The event loop runs every runnable task, every sleep elapses and every bus
\* call returns or raises: a task that can take a step eventually takes it.
FairSpec == Spec /\ \A t \in Tasks : WF_vars(Step(t))

(* ---------------- cancellation of a task ---------------- *)
cancel_sleep_leaks_lock(t) ==
    /\ pc[t] \in {"sleep", "extra_sleep"}
    /\ pc' = [pc EXCEPT ![t] = "done"]
    /\ Ended(t, CancelledError, <<>>)
    /\ UNCHANGED <<lock, waiting, acquired, address, log, nCalls, initAddress,
                   deviceReady>>

\* The task of a call is cancelled while it is suspended in one of the sleeps
\* of the operation or of _read: CancelledError is raised at that await, no
\* handler in the operation catches it, and the wrapper's finally releases the
\* lock before the error leaves the call. Nothing else is undone.
cancel_sleep(t) ==
    /\ pc[t] \in {"sleep", "extra_sleep"}
    /\ wrapper_exit(t, CancelledError, <<>>)
    /\ UNCHANGED <<address, log, nCalls, initAddress, deviceReady>>

\* The task is cancelled while it waits in `await self.lock.acquire()`, which
\* is outside the wrapper's try: it leaves the lock's queue of waiters and the
\* call ends without having held the lock.
cancel_acquire(t) ==
    /\ pc[t] = "acquire"
    /\ waiting' = Without(waiting, t)
    /\ pc' = [pc EXCEPT ![t] = "done"]
    /\ Ended(t, CancelledError, <<>>)
    /\ UNCHANGED <<lock, acquired, address, log, nCalls, initAddress, deviceReady>>

NextCancel ==
    \/ Next
    \/ \E t \in Tasks : cancel_sleep(t)
    \/ \E t \in Tasks : cancel_acquire(t)

\* the driver in an environment that may cancel the tasks of its calls
SpecCancel == Init /\ [][NextCancel]_vars

(* ======================= properties ======================= *)
IsIO(e) == e.kind \in {"write", "read"}
IOIdx == {i \in 1..Len(log) : IsIO(log[i])}
EventsOf(t, kind) == {i \in 1..Len(log) : log[i].call = t /\ log[i].kind = kind}
IOOf(t) == EventsOf(t, "write") \cup EventsOf(t, "read")
\* position of task t in the order of acquisition
AcqPos(t) == CHOOSE k \in 1..Len(acquired) : acquired[k] = t
\* the call that has just ended was op, and its bus read returned a response
EndedWithResponse(op) == last.op = op /\ last.response # <<>>

\* C1: the bus transfers of two calls are never interleaved: every transfer of
\* the call that acquired the lock second comes after every transfer of the call
\* that acquired it first.
C1_NoInterleaving ==
    \A i, j \in IOIdx :
        (i < j /\ log[i].call # log[j].call) =>
            /\ \E k \in 1..Len(acquired) : acquired[k] = log[i].call
            /\ \E k \in 1..Len(acquired) : acquired[k] = log[j].call
            /\ AcqPos(log[i].call) < AcqPos(log[j].call)

\* a call that found the lock taken has acquired it right after the call
\* before it, and both have done two bus transfers
C1_Witness ==
    \E k \in 1..(Len(acquired) - 1) :
        LET a == acquired[k]
            b == acquired[k + 1]
        IN  /\ cur[b].ahead > 0
            /\ Cardinality(IOOf(a)) >= 2
            /\ Cardinality(IOOf(b)) >= 2

\* C2: the lock is released on every exit path (normal return, bus failure,
\* parse failure): a call that has ended never holds the lock, the holder is
\* always a call in progress, and once no call is in progress the lock is free.
C2_ReleasedOnEveryExit ==
    /\ \A t \in Tasks : pc[t] \in {"new", "acquire", "done"} => lock # t
    /\ (\A t \in Tasks : pc[t] \in {"new", "done"}) => (lock = NoTask /\ waiting = <<>>)
    /\ \A t \in Tasks : pc[t] = "acquire" => lock # NoTask

\* one call ended with a failed bus write, a later one with a failed bus read,
\* the last one with a parse failure, and the lock is free again
C2_Witness ==
    /\ lock = NoTask
    /\ last.result = ValueError
    /\ \E i, j \in IOIdx :
        /\ i < j
        /\ log[i].kind = "write" /\ ~log[i].ok
        /\ log[j].kind = "read" /\ ~log[j].ok
        /\ log[j].call < last.task

AppliedChange(i) ==
    /\ log[i].kind = "write" /\ log[i].ok
    /\ \E a \in Addresses : log[i].data = CmdI2C(a)
ChangeArg(i) == CHOOSE a \in Addresses : log[i].data = CmdI2C(a)

\* C3: after a change_i2c_address(new_address) whose write went out, every bus
\* transfer that follows (up to the next applied change) is addressed to
\* new_address, also when it belongs to a call that was already waiting for
\* the lock.
C3_SubsequentUseNewAddress ==
    \A i, j \in 1..Len(log) :
        ( /\ i < j
          /\ AppliedChange(i)
          /\ IsIO(log[j])
          /\ ~ \E k \in (i + 1)..(j - 1) : AppliedChange(k) )
        => log[j].addr = ChangeArg(i)

\* a take_reading that was waiting while the address was changed to another
\* value has written and read at the new address
C3_Witness ==
    \E i \in 1..Len(log) :
        /\ AppliedChange(i)
        /\ ChangeArg(i) # log[i].addr
        /\ \E t \in Tasks :
            /\ t = log[i].call + 1
            /\ cur[t].op = "take_reading" /\ cur[t].ahead > 0
            /\ EventsOf(t, "read") # {}
            /\ \A j \in IOOf(t) : j > i /\ log[j].addr = ChangeArg(i)

IsNumeric(s) == float(s).kind = "float"
SleepsOfLast == Cardinality(EventsOf(last.task, "sleep"))
ReadsOfLast == Cardinality(EventsOf(last.task, "read"))

\* C4: when the first response is STILL_PROCESSING and the device would answer
\* SUCCESS with a numeric payload on a retried read, take_reading returns that
\* number, after exactly one additional wait.
C4_RetryReturnsReading ==
    ( /\ EndedWithResponse("take_reading")
      /\ last.response[1] = STILL_PROCESSING
      /\ log[Len(log)].call = last.task
      /\ deviceReady # <<>>
      /\ deviceReady[1] = SUCCESSFUL_REQUEST
      /\ IsNumeric(UntilEnd(Tail(deviceReady))) )
    => /\ last.result = float(UntilEnd(Tail(deviceReady)))
       /\ SleepsOfLast = 2

NoNumberCase(resp) ==
    \/ resp[1] \in {NO_DATA_TO_SEND, SYNTAX_ERROR, STILL_PROCESSING}
    \/ UntilEnd(Tail(resp)) = <<>>

\* C6: take_reading and get_temperature_compensation never return a number
\* when the status is NO_DATA, SYNTAX_ERROR or STILL_PROCESSING or when the
\* payload is empty: the call ends in a failure.
C6_NoNumberWithoutData ==
    ( /\ last.op \in {"take_reading", "get_temperature_compensation"}
      /\ last.response # <<>>
      /\ NoNumberCase(last.response) )
    => last.result.kind \in {"ValueError", "OSError"}

\* get_temperature_compensation has failed on a SUCCESS response with an
\* empty payload
C6_Witness ==
    /\ EndedWithResponse("get_temperature_compensation")
    /\ last.response[1] = SUCCESSFUL_REQUEST
    /\ UntilEnd(Tail(last.response)) = <<>>
    /\ last.result = ValueError

AppliedIdx == {i \in 1..Len(log) : AppliedChange(i)}
LastApplied ==
    IF AppliedIdx = {} THEN initAddress
    ELSE ChangeArg(CHOOSE i \in AppliedIdx : \A k \in AppliedIdx : k <= i)

\* C7: the stored address is the argument of the latest change_i2c_address
\* whose bus write succeeded, or the construction-time address if there is none.
C7_AddressIsLastApplied == address = LastApplied

\* an applied change was followed by another call's transfer and by a
\* change_i2c_address to a different address whose write failed
C7_Witness ==
    \E i, j, k \in 1..Len(log) :
        /\ i < j /\ j < k
        /\ AppliedChange(i) /\ ChangeArg(i) # initAddress
        /\ IsIO(log[j]) /\ log[j].ok /\ ~AppliedChange(j)
        /\ ~log[k].ok /\ log[k].data = CmdI2C(initAddress)

\* C8: the lock stays held across every suspension of a call, the settle delay
\* after its last transfer included: while a call sleeps it holds the lock,
\* nothing has happened on the bus since its sleep began and no other call is
\* under way.
C8_HeldAcrossSuspension ==
    \A t \in Tasks :
        pc[t] \in {"sleep", "extra_sleep"} =>
            /\ lock = t
            /\ log # <<>>
            /\ log[Len(log)].call = t
            /\ log[Len(log)].kind = "sleep"
            /\ \A u \in Tasks \ {t} : pc[u] \in {"new", "acquire", "done"}

\* set_temperature_compensation sleeps its 300 ms after its only transfer while
\* two other calls wait for the lock
C8_Witness ==
    \E t \in Tasks :
        /\ pc[t] = "sleep" /\ cur[t].op = "set_temperature_compensation"
        /\ Len(waiting) >= 2

\* C9: calls are served in call order: all transfers of a call that was made
\* earlier come before any transfer of a call made later (tasks are numbered
\* in the order of their calls).
C9_ServedInCallOrder ==
    \A i, j \in IOIdx : i < j => log[i].call <= log[j].call

\* a call that found a holder and another waiter before it has done its
\* transfers, after those of the waiter before it
C9_Witness ==
    \E t \in Tasks :
        /\ cur[t].ahead >= 2
        /\ Cardinality(IOOf(t)) >= 2
        /\ \E u \in Tasks : u < t /\ IOOf(u) # {}
                            /\ \E v \in Tasks : v < u /\ IOOf(v) # {}

\* C10: a bus failure is never retried: the call whose write or read raised
\* does nothing more on the bus (no transfer, no delay) and ends with the
\* bus error.
C10_BusFailureNotRetried ==
    \A i \in IOIdx :
        ~log[i].ok =>
            /\ pc[log[i].call] = "done"
            /\ last.task = log[i].call => last.result = OSError
            /\ i = Len(log) => last.task = log[i].call
            /\ \A j \in 1..Len(log) : j > i => log[j].call # log[i].call

\* a find whose "Find" write failed was followed by a call whose read has
\* just failed
C10_Witness ==
    /\ last.result = OSError
    /\ log[Len(log)].kind = "read"
    /\ \E i \in IOIdx : /\ ~log[i].ok /\ log[i].data = CmdFind
                        /\ log[i].call < last.task

TempOfCmd(data) == CHOOSE temp \in Temps : data = CmdSetTemp(temp)
TPrefix == <<63, 84, 44>>

\* C11: set_temperature_compensation(v) followed by
\* get_temperature_compensation(), the device answering SUCCESS with "?T,"
\* and the text of the last value it was sent, returns a value equal to v; and
\* any SUCCESS payload "?T,<number>" yields <number>.
C11_SetGetRoundTrip ==
    ( /\ EndedWithResponse("get_temperature_compensation")
      /\ log[Len(log)].call = last.task )
    => /\ ( /\ SetTempIdx # {}
            /\ last.response = EchoFrame
            /\ \E temp \in Temps : log[LastSetTempIdx].data = CmdSetTemp(temp) )
          => LET v == TempOfCmd(log[LastSetTempIdx].data)
             IN  last.result = Value(Norm(v.m, v.e))
       /\ \A n \in 1..(ReadLen - 4) :
            LET number == SubSeq(last.response, 5, 4 + n) IN
            ( /\ last.response[1] = SUCCESSFUL_REQUEST
              /\ SubSeq(last.response, 2, 4) = TPrefix
              /\ IsNumeric(number)
              /\ (4 + n = ReadLen \/ last.response[5 + n] = END_MARKER) )
            => last.result = float(number)

\* the float 25.0 was set by a call; a later call asked for the value, was
\* answered "?T,25.0" and returned 25
C11_Witness ==
    /\ EndedWithResponse("get_temperature_compensation")
    /\ log[Len(log)].call = last.task
    /\ SetTempIdx # {}
    /\ log[LastSetTempIdx].data = CmdSetTemp([isInt |-> FALSE, m |-> 25, e |-> 0])
    /\ log[LastSetTempIdx].call < last.task
    /\ last.response = EchoFrame
    /\ last.result = Value([m |-> 25, e |-> 0])

InCall(t) == pc[t] \in {"acquire", "body", "sleep", "extra_sleep"}

\* C12: when every bus call returns or raises and every delay elapses, every
\* call that was made eventually ends (a call that has ended stays ended, so
\* this is: again and again no call is under way), and a task that waits for
\* the lock leaves the wait only by getting the lock, so every waiting task
\* eventually holds it.
C12_EveryCallEnds ==
    /\ []<>(\A t \in Tasks : ~InCall(t))
    /\ [][\A t \in Tasks : (pc[t] = "acquire" /\ pc'[t] # "acquire")
                              => (lock' = t /\ pc'[t] = "body")]_vars

\* the two earlier calls have ended and the call that found a holder and a
\* waiter before it holds the lock and has used the bus
C12_Witness ==
    \E t \in Tasks :
        /\ cur[t].ahead >= 2
        /\ lock = t
        /\ IOOf(t) # {}
        /\ \A u \in Tasks : u < t => pc[u] = "done"

ReadIdxOfLast == CHOOSE i \in EventsOf(last.task, "read") : TRUE
ExtraWaitsOfLast == {i \in EventsOf(last.task, "sleep") : i > ReadIdxOfLast}

\* C13: a Read-Decode cycle does exactly one bus read of 16 bytes; it waits
\* once more, for 900 ms, if and only if the status byte is STILL_PROCESSING,
\* and does not read the buffer again; STILL_PROCESSING, NO_DATA and
\* SYNTAX_ERROR yield the empty payload.
C13_ReadDecodeCycle ==
    /\ \A t \in Tasks :
         pc[t] = "extra_sleep" =>
            /\ response[t][1] = STILL_PROCESSING
            /\ Cardinality(EventsOf(t, "read")) = 1
    /\ (last.op \in {"take_reading", "get_temperature_compensation"}
        /\ last.response # <<>>)
       => /\ ReadsOfLast = 1
          /\ Len(last.response) = ReadLen
          /\ Cardinality(ExtraWaitsOfLast)
               = (IF last.response[1] = STILL_PROCESSING THEN 1 ELSE 0)
          /\ \A i \in ExtraWaitsOfLast : log[i].ms = RetryDelayMs
          /\ last.response[1] \in {STILL_PROCESSING, NO_DATA_TO_SEND, SYNTAX_ERROR}
               => last.payload = <<>>

\* get_temperature_compensation read a STILL_PROCESSING buffer that carries a
\* number, waited once more and got the empty payload
C13_Witness ==
    /\ EndedWithResponse("get_temperature_compensation")
    /\ last.response[1] = STILL_PROCESSING
    /\ IsNumeric(UntilEnd(Tail(last.response)))
    /\ Cardinality(ExtraWaitsOfLast) = 1
    /\ last.payload = <<>>
    /\ last.result = ValueError

\* the stored address before log entry i was made
AddressBefore(i) ==
    LET before == {k \in AppliedIdx : k < i}
    IN  IF before = {} THEN initAddress
        ELSE ChangeArg(CHOOSE k \in before : \A m \in before : m <= k)

ShapeOf(e) == [kind |-> e.kind, data |-> e.data, ms |-> e.ms]
CallEvents(t) == SelectSeq(log, LAMBDA e : e.call = t)
TraceOf(t) == [i \in 1..Len(CallEvents(t)) |-> ShapeOf(CallEvents(t)[i])]
WriteOf(data) == [kind |-> "write", data |-> data, ms |-> 0]
SleepOf(ms) == [kind |-> "sleep", data |-> <<>>, ms |-> ms]
ReadOnce == [kind |-> "read", data |-> <<>>, ms |-> 0]
\* the complete bus sequences of an operation
FullTraces(op) ==
    CASE op = "find" ->
           {<<WriteOf(CmdFind), SleepOf(b * 1000), WriteOf(Cmd123)>> : b \in BlinkTimes}
      [] op = "set_temperature_compensation" ->
           {<<WriteOf(CmdSetTemp(temp)), SleepOf(TempDelayMs)>> : temp \in Temps}
      [] op = "change_i2c_address" ->
           {<<WriteOf(CmdI2C(a)), SleepOf(RebootDelayMs)>> : a \in Addresses}
      [] op = "take_reading" ->
           {<<WriteOf(CmdR), SleepOf(ReadingDelayMs), ReadOnce>>,
            <<WriteOf(CmdR), SleepOf(ReadingDelayMs), ReadOnce, SleepOf(RetryDelayMs)>>}
      [] op = "get_temperature_compensation" ->
           {<<WriteOf(CmdTQuery), SleepOf(TempDelayMs), ReadOnce>>,
            <<WriteOf(CmdTQuery), SleepOf(TempDelayMs), ReadOnce, SleepOf(RetryDelayMs)>>}
      [] OTHER -> {}
IsPrefix(s, full) == Len(s) <= Len(full) /\ s = SubSeq(full, 1, Len(s))
AllOk(evs) == \A i \in 1..Len(evs) : evs[i].ok
WriteOnly == {"find", "set_temperature_compensation", "change_i2c_address"}

FirstEnd(resp) ==
    LET ends == {k \in 2..Len(resp) : resp[k] = END_MARKER}
    IN  IF ends = {} THEN Len(resp) + 1
        ELSE CHOOSE k \in ends : \A m \in ends : k <= m
NoPayloadStatus == {NO_DATA_TO_SEND, SYNTAX_ERROR, STILL_PROCESSING}

CancelledInDelay(t) ==
    /\ pc[t] \in {"sleep", "extra_sleep"}
    /\ pc'[t] = "done"
    /\ last'.task = t
    /\ last'.result = CancelledError
\* some task can take a step of a call: the holder of the lock, or a new call
\* that finds the lock free
Holder == IF lock = NoTask THEN {} ELSE {lock}

\* C17: when the task of a call is cancelled in one of its delays, the lock
\* is released in that step: it is free, or has passed to the waiter that
\* called first, who is then running its operation; the lock is never left
\* with a task that has ended and never free while a task waits for it, so
\* the other calls can proceed; and a change_i2c_address cancelled in its
\* reboot delay leaves the stored address at new_address.
C17_CancelReleasesLock ==
    /\ [](/\ \A t \in Holder : pc[t] \in {"body", "sleep", "extra_sleep"}
          /\ (lock = NoTask => waiting = <<>>)
          /\ \A i \in 1..Len(waiting) : pc[waiting[i]] = "acquire"
          /\ \A t \in Tasks : pc[t] = "acquire" => \E i \in 1..Len(waiting) : waiting[i] = t)
    /\ [][\A t \in Tasks : CancelledInDelay(t) =>
            /\ lock = t
            /\ lock' # t
            /\ lock' = (IF waiting = <<>> THEN NoTask ELSE Head(waiting))
            /\ (lock' # NoTask => pc'[lock'] = "body")
            /\ address' = address
            /\ (cur[t].op = "change_i2c_address" => address' = cur[t].arg)]_vars

\* a change_i2c_address to another address has just been cancelled in its
\* reboot delay: the stored address is the new one and the call that waited
\* behind it holds the lock and runs
C17_Witness ==
    /\ last.op = "change_i2c_address"
    /\ last.result = CancelledError
    /\ TraceOf(last.task) = <<WriteOf(CmdI2C(address)), SleepOf(RebootDelayMs)>>
    /\ address # initAddress
    /\ lock # NoTask
    /\ lock # last.task
    /\ pc[lock] = "body"
    /\ pc[last.task] = "done"

\* the calls that are between their acquire and their release
Between == {t \in Tasks : pc[t] \in {"body", "sleep", "extra_sleep"}}
Released == {t \in Tasks : pc[t] = "done"}

\* C18: the lock is released only by the call that holds it, once for each
\* acquisition: at most one call is between its acquire and its release and
\* it is the holder of the lock; every call has acquired the lock at most
\* once and every acquisition is either still held or was released once, by
\* the end of its call; a release happens only on a lock held by the
\* releasing call, and the lock leaves its holder only when that call ends
\* (no step of an operation or of _read acquires or releases it in between).
C18_ReleasedOnceByHolder ==
    /\ [](/\ Cardinality(Between) <= 1
          /\ Between = Holder
          /\ \A i, j \in 1..Len(acquired) : acquired[i] = acquired[j] => i = j
          /\ {acquired[i] : i \in 1..Len(acquired)} = Between \cup Released)
    /\ [][\A t \in Tasks :
            /\ (t \in Between /\ pc'[t] = "done") => (lock = t /\ lock' # t)
            /\ (lock = t /\ lock' # t) => (t \in Between /\ pc'[t] = "done")
            /\ (t \in Between /\ pc'[t] # pc[t] /\ pc'[t] # "done") =>
                   (lock' = t /\ pc'[t] \in {"sleep", "extra_sleep"}
                    /\ acquired' = acquired /\ waiting' = waiting)
            /\ (lock # t /\ lock' = t) => (t \notin Between /\ pc'[t] = "body")]_vars

\* the third call, which waited behind two others, holds the lock inside
\* _read's extra wait after both of them released it
C18_Witness ==
    \E t \in Tasks :
        /\ pc[t] = "extra_sleep"
        /\ lock = t
        /\ cur[t].ahead >= 2
        /\ Len(acquired) = 3
        /\ Cardinality(Released) = 2

====
